---- MODULE Spec2Model ----
(***************************************************************************)
(* The retrieval tool-loop of app/report_agent.py (_tool_loop and          *)
(* generate_report) with the collaborators it calls: ensure_vector_store   *)
(* (app/vectorstore.py) and file_list_handler (app/file_list_tool.py).     *)
(*                                                                         *)
(* Python values are represented as follows.                               *)
(*   None            the string NoneVal                                    *)
(*   str             a store id or tool name is a TLA+ string; a text that *)
(*                   is stripped or parsed is a sequence of characters     *)
(*   list            a sequence                                            *)
(*   dict            a function from keys to values                        *)
(*   response object a record; an attribute that getattr may find missing  *)
(*                   has a has_<name> flag beside it                       *)
(***************************************************************************)
EXTENDS Integers, Sequences, FiniteSets, TLC

\* ------------------------------------------------------------------ bounds

\* Output items the endpoint produces over one report generation.
MaxOutputItems == 2

\* Longest final text of the parsing specification.
MaxTextLen == 3

\* Output items of the response to one attribute extraction.
MaxReplyItems == 2

\* PDF files under the folder that ingest_folder is given.
MaxPdfs == 2

\* ------------------------------------------------------------ value domains

NoneVal == "<None>"

\* Python truthiness of an optional string.
Truthy(s) == s # NoneVal /\ s # ""

\* A Python value that is parsed from JSON or normalised is [py, val]: py
\* its type, val the characters of a str, the number of an int, the
\* elements of a list, the mapping of a dict.
PyNone == [py |-> "none", val |-> <<>>]
PyStr(s) == [py |-> "str", val |-> s]
PyInt(n) == [py |-> "int", val |-> n]
PyList(l) == [py |-> "list", val |-> l]
PyDict(d) == [py |-> "dict", val |-> d]

Invocations == {1, 2}

\* Store ids: the one configured in the environment, the one persisted in
\* the state file, the one a create call returns, one that only the
\* arguments of a tool call name.
EnvStore == "vs_env"
SavedStore == "vs_saved"
NewStore == "vs_new"
ArgStore == "vs_arg"

KnownTool == "file_list"
UnknownTools == {"web_lookup"}

\* dicts over the one key the tool schema declares
EmptyDict == [k \in {} |-> ""]
ArgDict(v) == [k \in {"vector_store_id"} |-> v]

\* call.arguments: absent (None), a text json.loads rejects, or the text of
\* an object (tool_schema declares parameters of type object, strict).
ArgumentTexts ==
    {[kind |-> "none", obj |-> EmptyDict],
     [kind |-> "invalid", obj |-> EmptyDict],
     [kind |-> "object", obj |-> EmptyDict],
     [kind |-> "object", obj |-> ArgDict("")],
     [kind |-> "object", obj |-> ArgDict(ArgStore)]}

\* What the endpoint may put into a response's output, before it is given
\* its id.  The arguments of a call to another tool are never read.
ItemShapes ==
    {[type |-> "message"], [type |-> "file_search_call"]}
    \cup {[type |-> "function_call", name |-> KnownTool, arguments |-> a] :
            a \in ArgumentTexts}
    \cup {[type |-> "function_call", name |-> n,
           arguments |-> [kind |-> "none", obj |-> EmptyDict]] :
            n \in UnknownTools}

SeqsUpTo(S, n) == UNION {[1..k -> S] : k \in 0..n}

\* Characters of a final text.
Chars == {" ", "{", "}", "[", "]", "1", "x"}
Texts == SeqsUpTo(Chars, MaxTextLen)

\* Final texts the endpoint of the loop specification answers with.
LoopTexts == {<<"{", "}", " ">>, <<" ", "x">>}

\* ----------------------------------------------------------------- state

VARIABLES
    envStoreId,      \* VECTOR_STORE_ID of the environment, NoneVal when unset
    stateFile,       \* vector_store_id of state/vector_store.json, or NoneVal
    storesCreated,   \* vector stores created through the API
    pc,              \* control point of each generate_report invocation
    vsid,            \* generate_report: vsid
    input_messages,  \* the list generate_report passes to _tool_loop
    input_accum,     \* _tool_loop: input_accum
    resp,            \* _tool_loop: resp
    pending,         \* _tool_loop: the tool_calls the for loop has yet to take
    sent,            \* the inputs of the generative calls issued, in order
    inFlight,        \* generative calls issued and not yet returned
    responses,       \* every response received, in order
    handled,         \* the calls of file_list_handler: [call_id, store]
    ret,             \* the text _tool_loop returned
    data,            \* the value generate_report returned
    cfg,             \* the content of attributes_config.json
    filename_hint,   \* extract_attributes_from_file: filename_hint
    xpc,             \* control point of extract_attributes_from_file
    generative_calls,\* generative calls extract_attributes_from_file issued
    schema_wrapper,  \* extract_attributes_from_file: schema_wrapper
    response,        \* extract_attributes_from_file: response
    extracted,       \* what left extract_attributes_from_file
    pdfs,            \* ingest_folder: pdfs
    ipc,             \* control point of ingest_folder
    position,        \* ingest_folder: i of the for loop
    file_id,         \* ingest_folder: file_id
    attrs,           \* ingest_folder: attrs
    events,          \* the stages ingest_folder has attempted, in order
    index,           \* state/metadata_index.json: its files
    ensured          \* the ids ensure_vector_store returned, in order

loopVars == <<pc, vsid, input_messages, input_accum, resp, pending, sent,
              inFlight, responses, handled, ret, data>>

extractVars == <<cfg, filename_hint, xpc, generative_calls, schema_wrapper,
                 response, extracted>>

batchVars == <<pdfs, ipc, position, file_id, attrs, events, index, ensured>>

vars == <<envStoreId, stateFile, storesCreated, loopVars, extractVars,
          batchVars>>

storeVars == <<envStoreId, stateFile, storesCreated>>

\* ------------------------------------------------------------ config.py

\* load_settings().vector_store_id: os.getenv("VECTOR_STORE_ID") or None
SettingsStoreId(env) == IF Truthy(env) THEN env ELSE NoneVal

\* load_vector_store_id(): the persisted id, None without a state file
load_vector_store_id(file) == file

\* The sidecar index of state/metadata.json, in insertion order.
MetadataIndex ==
    <<[id |-> "file_a", vector_store_id |-> EnvStore, title |-> "Q2 Outlook",
       source_path |-> "in/a.pdf", status |-> "completed"],
      [id |-> "file_b", vector_store_id |-> ArgStore, title |-> "",
       source_path |-> "in/b.pdf", status |-> "in_progress"],
      [id |-> "file_c", vector_store_id |-> SavedStore, title |-> NoneVal,
       source_path |-> "c.pdf", status |-> "completed"],
      [id |-> "file_d", vector_store_id |-> NewStore, title |-> "Brands",
       source_path |-> "in/d.pdf", status |-> "completed"],
      [id |-> "file_e", vector_store_id |-> EnvStore, title |-> "",
       source_path |-> "e.pdf", status |-> "failed"]>>

AttributeKeys == <<"title", "year">>

\* source_path.split("/")[-1]
BaseName(path) ==
    CASE path = "in/a.pdf" -> "a.pdf"
      [] path = "in/b.pdf" -> "b.pdf"
      [] path = "in/d.pdf" -> "d.pdf"
      [] OTHER -> path

\* ------------------------------------------------------- vectorstore.py

\* The ids client.vector_stores.create gives the stores it creates, in the
\* order of their creation.
CreatedStores == <<NewStore, "vs_new_2", "vs_new_3", "vs_new_4">>

\* Mutant of ensure_vector_store_given: the persisted id is not read.
ensure_vector_store_unread(env, file, vs_id) ==
    IF Truthy(SettingsStoreId(env))
    THEN [id |-> SettingsStoreId(env), file |-> file, created |-> 0]
    ELSE [id |-> vs_id, file |-> vs_id, created |-> 1]

\* ensure_vector_store() when a store that is created gets the id vs_id: the
\* id it returns and the state file it leaves.
ensure_vector_store_given(env, file, vs_id) ==
    IF Truthy(SettingsStoreId(env))
    THEN [id |-> SettingsStoreId(env), file |-> file, created |-> 0]
    ELSE IF Truthy(load_vector_store_id(file))
         THEN [id |-> load_vector_store_id(file), file |-> file, created |-> 0]
         ELSE [id |-> vs_id, file |-> vs_id, created |-> 1]

\* ensure_vector_store() of a process that has created no store yet.
ensure_vector_store(env, file) ==
    ensure_vector_store_given(env, file, CreatedStores[1])

\* ----------------------------------------------------- file_list_tool.py

FileEntry(rec) ==
    [id |-> rec.id,
     title |-> IF Truthy(rec.title) THEN rec.title ELSE BaseName(rec.source_path),
     attributes |-> [title |-> rec.title],
     status |-> rec.status]

RECURSIVE MatchingFiles(_, _)
MatchingFiles(idx, store) ==
    IF idx = <<>> THEN <<>>
    ELSE IF Head(idx).vector_store_id # store
         THEN MatchingFiles(Tail(idx), store)
         ELSE <<FileEntry(Head(idx))>> \o MatchingFiles(Tail(idx), store)

file_list_handler(vector_store_id, env, file) ==
    LET store == IF Truthy(vector_store_id) THEN vector_store_id
                 ELSE IF Truthy(load_vector_store_id(file))
                      THEN load_vector_store_id(file)
                      ELSE SettingsStoreId(env)
    IN [vector_store_id |-> store,
        available_attributes |-> AttributeKeys,
        files |-> MatchingFiles(MetadataIndex, store)]

\* ------------------------------------------------------- report_agent.py

\* messages of generate_report: the system instructions, then the user
\* request (period, attribute keys, enum guidance, store id).
Periods == {"Q2 2025"}

SeedMessages(period, store) ==
    <<[role |-> "system", content |-> "DEV_INSTRUCTIONS"],
      [role |-> "user",
       content |-> [period |-> period, attr_keys |-> AttributeKeys, vsid |-> store]]>>

\* getattr(o, "type", None) of a transcript entry; the seed dicts have none.
TypeOf(e) == IF "type" \in DOMAIN e THEN e.type ELSE NoneVal

\* An output item as the endpoint returns it: ident is unique to the item,
\* and a function call carries it as its call_id.
OutputItem(shape, ident) ==
    IF shape.type = "function_call"
    THEN [type |-> "function_call", id |-> ident, call_id |-> ident,
          name |-> shape.name, arguments |-> shape.arguments]
    ELSE [type |-> shape.type, id |-> ident]

\* The response to call number k of invocation i.
Response(i, k, hasOutput, shapes, hasText, text) ==
    [has_output |-> hasOutput,
     output |-> [j \in 1..Len(shapes) |-> OutputItem(shapes[j], <<i, k, j>>)],
     has_text |-> hasText,
     output_text |-> text]

\* _gather_outputs(resp)
gather_outputs(r) == IF r.has_output THEN r.output ELSE <<>>

\* getattr(resp, "output_text", "")
OutputText(r) == IF r.has_text THEN r.output_text ELSE <<>>

IsFunctionCall(o) == TypeOf(o) = "function_call"

\* Mutant of ToolCalls: only the first function call is taken up.
ToolCallsFirstOnly(r) ==
    IF SelectSeq(gather_outputs(r), IsFunctionCall) = <<>>
    THEN <<>>
    ELSE <<Head(SelectSeq(gather_outputs(r), IsFunctionCall))>>

\* tool_calls of line 144
ToolCalls(r) == SelectSeq(gather_outputs(r), IsFunctionCall)

\* Mutant of NoToolCalls: only the last output item is looked at.
NoToolCallsLastItem(r) ==
    IF gather_outputs(r) = <<>>
    THEN TRUE
    ELSE ~IsFunctionCall(gather_outputs(r)[Len(gather_outputs(r))])

\* Mutant of NoToolCalls: the loop gives up at its second response.
NoToolCallsOrRoundLimit(r) ==
    IF SelectSeq(gather_outputs(r), IsFunctionCall) = <<>>
    THEN TRUE
    ELSE gather_outputs(r)[1].id[2] >= 2

\* the test of line 145: not tool_calls
NoToolCalls(r) == ToolCalls(r) = <<>>

\* Mutant of AccumFirst: the transcript starts without the seed.
AccumFirstNoSeed(messages, r) == gather_outputs(r)

\* line 141: list(input_messages) + _gather_outputs(resp)
AccumFirst(messages, r) == messages \o gather_outputs(r)

\* Mutant of AccumNext: the new output is put in front of the transcript.
AccumNextInFront(accum, r) == gather_outputs(r) \o accum

\* Mutant of AccumNext: the output of a later response is not appended.
AccumNextDropped(accum, r) == accum

\* line 174: input_accum += _gather_outputs(resp)
AccumNext(accum, r) == accum \o gather_outputs(r)

\* json.loads of an arguments text
json_loads_arguments(a) == [ok |-> a.kind = "object", val |-> a.obj]

\* lines 153-156: json.loads(call.arguments or "{}"), {} when it raises
ParsedArguments(call) ==
    LET text == IF call.arguments.kind = "none"
                THEN [kind |-> "object", obj |-> EmptyDict]
                ELSE call.arguments
        r == json_loads_arguments(text)
    IN IF r.ok THEN r.val ELSE EmptyDict

\* dict.get(key)
DictGet(d, key) == IF key \in DOMAIN d THEN d[key] ELSE NoneVal

\* Mutant of HandlerArgument: no fallback to the bound store id.
HandlerArgumentNoDefault(args, vector_store_id) == DictGet(args, "vector_store_id")

\* line 157: args.get("vector_store_id") or vector_store_id
HandlerArgument(args, vector_store_id) ==
    IF Truthy(DictGet(args, "vector_store_id"))
    THEN DictGet(args, "vector_store_id")
    ELSE vector_store_id

\* json.dumps: the text of a value
json_dumps(v) == [json_text_of |-> v]

\* Mutant of UnknownToolOutput: the error does not name the tool.
UnknownToolOutputUnnamed(name) == json_dumps([error |-> <<"Unknown tool ">>])

\* line 151
UnknownToolOutput(name) == json_dumps([error |-> <<"Unknown tool ", name>>])

\* line 150: name != "file_list"
IsUnknownTool(call) == call.name # KnownTool

\* lines 149-158: tool_output of one call
ToolOutput(call, vector_store_id, env, file) ==
    IF IsUnknownTool(call)
    THEN UnknownToolOutput(call.name)
    ELSE json_dumps(file_list_handler(
             HandlerArgument(ParsedArguments(call), vector_store_id), env, file))

\* lines 149-157: the handler calls one tool call makes
HandlerCalls(call, vector_store_id) ==
    IF IsUnknownTool(call)
    THEN <<>>
    ELSE <<[call_id |-> call.call_id,
            store |-> HandlerArgument(ParsedArguments(call), vector_store_id)]>>

\* lines 160-164
ResultEntry(call, tool_output) ==
    [type |-> "function_call_output", call_id |-> call.call_id,
     output |-> tool_output]

\* str.strip() of a text
RECURSIVE LStrip(_)
LStrip(t) == IF t # <<>> /\ Head(t) = " " THEN LStrip(Tail(t)) ELSE t

RECURSIVE RStrip(_)
RStrip(t) ==
    IF t # <<>> /\ t[Len(t)] = " " THEN RStrip(SubSeq(t, 1, Len(t) - 1)) ELSE t

\* Mutant of Strip: only the leading blanks are removed.
StripLeading(t) == LStrip(t)

Strip(t) == RStrip(LStrip(t))

\* json.loads of a text over Chars.  A value is [py, val]: py the Python
\* type of the value, val an empty dict, a list of values or a number.
RECURSIVE SkipWs(_, _)
SkipWs(s, p) == IF p <= Len(s) /\ s[p] = " " THEN SkipWs(s, p + 1) ELSE p

RECURSIVE ScanDigits(_, _, _)
ScanDigits(s, p, n) ==
    IF p <= Len(s) /\ s[p] = "1"
    THEN ScanDigits(s, p + 1, 10 * n + 1)
    ELSE [ok |-> TRUE, val |-> [py |-> "int", val |-> n], next |-> p]

JsonFail == [ok |-> FALSE, val |-> [py |-> "none", val |-> <<>>], next |-> 0]

RECURSIVE ParseValue(_, _)
ParseValue(s, p) ==
    IF p > Len(s) THEN JsonFail
    ELSE CASE s[p] = "{" ->
                LET q == SkipWs(s, p + 1)
                IN IF q <= Len(s) /\ s[q] = "}"
                   THEN [ok |-> TRUE, val |-> [py |-> "dict", val |-> EmptyDict],
                         next |-> q + 1]
                   ELSE JsonFail
           [] s[p] = "[" ->
                LET q == SkipWs(s, p + 1)
                IN IF q <= Len(s) /\ s[q] = "]"
                   THEN [ok |-> TRUE, val |-> [py |-> "list", val |-> <<>>],
                         next |-> q + 1]
                   ELSE LET e == ParseValue(s, q)
                            c == SkipWs(s, e.next)
                        IN IF e.ok /\ c <= Len(s) /\ s[c] = "]"
                           THEN [ok |-> TRUE,
                                 val |-> [py |-> "list", val |-> <<e.val>>],
                                 next |-> c + 1]
                           ELSE JsonFail
           [] s[p] = "1" -> ScanDigits(s, p, 0)
           [] OTHER -> JsonFail

json_loads(s) ==
    LET r == ParseValue(s, SkipWs(s, 1))
    IN IF r.ok /\ SkipWs(s, r.next) = Len(s) + 1 THEN r ELSE JsonFail

\* line 188: the report built when json.loads raises
DegradedReport(json_text) ==
    [py |-> "dict",
     val |-> [summary |-> json_text,
              demand_trends |->
                  [leisure |-> NoneVal, group |-> NoneVal, business |-> NoneVal,
                   convention |-> NoneVal,
                   by_price_scale |->
                       [luxury |-> NoneVal, premium |-> NoneVal,
                        economy |-> NoneVal]],
              economic_and_industry_metrics |-> <<>>,
              sentiment_analysis |-> <<>>,
              regional_segmentation |-> <<>>,
              emerging_trends |-> <<>>,
              historical_comparison |->
                  [period_compared |-> NoneVal, key_differences |-> <<>>],
              conclusions |-> NoneVal]]

\* lines 185-188, on the stripped text
LoadOrDegrade(json_text) ==
    IF json_loads(json_text).ok
    THEN json_loads(json_text).val
    ELSE DegradedReport(json_text)

\* lines 184-189: data of the text _tool_loop returned
ReportData(text) == LoadOrDegrade(Strip(text))

\* ------------------------------------------------------------ the endpoint

NoResponse ==
    [has_output |-> FALSE, output |-> <<>>, has_text |-> FALSE, output_text |-> <<>>]

NoData == [py |-> "unset", val |-> <<>>]

\* Output items of the responses invocation i has received.
RECURSIVE ItemCount(_)
ItemCount(rs) ==
    IF rs = <<>> THEN 0 ELSE Len(Head(rs).output) + ItemCount(Tail(rs))

HasCallShape(shapes) ==
    \E j \in 1..Len(shapes) : shapes[j].type = "function_call"

\* The responses the endpoint may give to call number k of invocation i with
\* room for n more output items, its final texts drawn from texts.  The
\* output_text of a response that requests tools is never read (line 146 is
\* reached only without tool calls), so it is left empty there.
EndpointResponses(i, k, n, texts) ==
    {Response(i, k, TRUE, shapes, TRUE, <<>>) :
        shapes \in {q \in SeqsUpTo(ItemShapes, n) : HasCallShape(q)}}
    \cup {Response(i, k, TRUE, shapes, TRUE, t) :
            shapes \in {q \in SeqsUpTo(ItemShapes, n) : ~HasCallShape(q)},
            t \in texts}
    \cup {Response(i, k, FALSE, <<>>, TRUE, t) : t \in texts}
    \cup {Response(i, k, TRUE, <<>>, FALSE, <<>>)}

\* --------------------------------------- attributes_config.json and values

\* bool(v)
PyTruthy(v) ==
    CASE v.py = "none" -> FALSE
      [] v.py = "int" -> v.val # 0
      [] OTHER -> DOMAIN v.val # {}

Range(s) == {s[p] : p \in DOMAIN s}

\* Contents of attributes_config.json: the declared names and the enums.
\* The file is read at import (attributes.py line 35) and again by each
\* call (attribute_extractor.py lines 50 and 85); it does not change in
\* between.  The second has no title and an enum for an undeclared name.
TravelTypes == <<"leisure", "business">>

FullConfig ==
    [attributes |-> <<"title", "year", "travel_types">>,
     enums |-> [travel_types |-> TravelTypes]]

UntitledConfig ==
    [attributes |-> <<"year", "travel_types">>,
     enums |-> [travel_types |-> TravelTypes, region |-> <<"emea">>]]

TitleOnlyConfig == [attributes |-> <<"title">>, enums |-> EmptyDict]

AttributeConfigs == {FullConfig, UntitledConfig, TitleOnlyConfig}

\* filename_hint: None, "", "Q2_2025_Report.pdf", "in/_a_.b.pdf"
Q2Report ==
    <<"Q", "2", "_", "2", "0", "2", "5", "_", "R", "e", "p", "o", "r", "t",
      ".", "p", "d", "f">>

FilenameHints ==
    {PyNone, PyStr(<<>>), PyStr(Q2Report),
     PyStr(<<"i", "n", "/", "_", "a", "_", ".", "b", ".", "p", "d", "f">>)}

\* ------------------------------------------------------------ attributes.py

DigitChars == <<"0", "1", "2", "3", "4", "5", "6", "7", "8", "9">>

\* str(n) of a non-negative int
RECURSIVE str_int(_)
str_int(n) ==
    IF n < 10 THEN <<DigitChars[n + 1]>>
    ELSE str_int(n \div 10) \o <<DigitChars[(n % 10) + 1]>>

\* str(v) and repr(v).  The items of a dict are written as one token: only
\* the braces around them matter to the callers.
RECURSIVE py_str(_), py_repr(_), JoinRepr(_)
JoinRepr(l) ==
    IF l = <<>> THEN <<>>
    ELSE IF Len(l) = 1 THEN py_repr(l[1])
    ELSE py_repr(l[1]) \o <<",", " ">> \o JoinRepr(Tail(l))

py_repr(v) == IF v.py = "str" THEN <<"'">> \o v.val \o <<"'">> ELSE py_str(v)

py_str(v) ==
    CASE v.py = "none" -> <<"N", "o", "n", "e">>
      [] v.py = "str" -> v.val
      [] v.py = "int" -> str_int(v.val)
      [] v.py = "list" -> <<"[">> \o JoinRepr(v.val) \o <<"]">>
      [] v.py = "dict" ->
            IF DOMAIN v.val = {} THEN <<"{", "}">> ELSE <<"{", "items", "}">>

\* _BaseAttributes._normalize, lines 50-57
_normalize(v) ==
    CASE v.py = "none" -> PyStr(<<>>)
      [] v.py = "int" -> PyStr(py_str(v))
      [] v.py = "list" -> PyList([p \in DOMAIN v.val |-> PyStr(py_str(v.val[p]))])
      [] OTHER -> v

\* The value of field k before its type is validated: the normalised input,
\* or the default "" of line 64 (a default is not passed to the validator).
FieldValue(d, k) == IF k \in DOMAIN d THEN _normalize(d[k]) ELSE PyStr(<<>>)

\* AttributeValue, line 42, after _normalize: a str or a list[str].
IsAttributeValue(v) ==
    \/ v.py = "str"
    \/ v.py = "list" /\ \A p \in DOMAIN v.val : v.val[p].py = "str"

\* Mutant of model_validate: keys outside the declared fields are kept
\* (extra = "allow").
model_validate_extra_allowed(d, names) ==
    IF \E k \in Range(names) : ~IsAttributeValue(FieldValue(d, k))
    THEN [raised |-> "ValidationError", value |-> EmptyDict]
    ELSE [raised |-> NoneVal,
          value |-> [k \in Range(names) \cup DOMAIN d |-> FieldValue(d, k)]]

\* DocAttributes.model_validate(d), lines 45-72: one field per declared name,
\* extra keys ignored; a value of no declared type raises.
model_validate(d, names) ==
    IF \E k \in Range(names) : ~IsAttributeValue(FieldValue(d, k))
    THEN [raised |-> "ValidationError", value |-> EmptyDict]
    ELSE [raised |-> NoneVal,
          value |-> [k \in Range(names) |-> FieldValue(d, k)]]

\* lines 89-95
LooseType ==
    [anyOf |-> <<[type |-> "string"], [type |-> "number"],
                 [type |-> "array", items |-> [type |-> "string"]]>>]

\* make_loose_json_schema_for_values(DocAttributes), lines 87-102: the
\* model's schema has one property per field, each relaxed to LooseType.
make_loose_json_schema_for_values(names) ==
    [title |-> "DocAttributes", type |-> "object",
     properties |-> [k \in Range(names) |-> LooseType],
     additionalProperties |-> FALSE]

\* ---------------------------------------------------- attribute_extractor.py

\* lines 56-61
EnumType(allowed_values) ==
    [anyOf |-> <<[type |-> "string", enum |-> allowed_values \o <<"">>],
                 [type |-> "array",
                  items |-> [type |-> "string", enum |-> allowed_values]]>>]

\* Mutant of SchemaProperties: the enums are not applied.
SchemaPropertiesLoose(properties, enum_map) == properties

\* lines 52-61: the property of every enum name that is a property is
\* replaced.
SchemaProperties(properties, enum_map) ==
    [k \in DOMAIN properties |->
        IF k \in DOMAIN enum_map THEN EnumType(enum_map[k]) ELSE properties[k]]

\* _build_json_schema(), lines 44-70, under configuration c
_build_json_schema(c) ==
    LET schema == make_loose_json_schema_for_values(c.attributes)
    IN [name |-> "DocAttributes",
        schema |-> [schema EXCEPT
                      !.properties = SchemaProperties(@, c.enums)],
        strict |-> TRUE]

\* str.rfind(c) within s[1..p]: the last position of c, 0 when there is none
RECURSIVE RFind(_, _, _)
RFind(s, c, p) ==
    IF p = 0 THEN 0 ELSE IF s[p] = c THEN p ELSE RFind(s, c, p - 1)

\* Path(path).name
PathName(path) == SubSeq(path, RFind(path, "/", Len(path)) + 1, Len(path))

\* Path(path).stem: the name without its last suffix
PathStem(path) ==
    LET name == PathName(path)
        i == RFind(name, ".", Len(name))
    IN IF 1 < i /\ i < Len(name) THEN SubSeq(name, 1, i - 1) ELSE name

\* s.replace(a, b) for single characters
Replace(s, a, b) == [p \in DOMAIN s |-> IF s[p] = a THEN b ELSE s[p]]

\* line 154
TitleFromFilename(hint) ==
    Strip(Replace(PathStem(hint), "_", " "))

\* A text of the model is a sequence of characters, [chars |-> s], parsed by
\* json_loads, or the JSON text of an object, json_dumps(object).
CharText(s) == [chars |-> s]

\* Mutant of try_parse: the text of a failed parse is returned as a str.
try_parse_keeps_text(text) ==
    IF "py" \in DOMAIN text THEN PyNone
    ELSE IF "chars" \in DOMAIN text
    THEN IF text.chars = <<>> THEN PyNone
         ELSE IF json_loads(text.chars).ok THEN json_loads(text.chars).val
         ELSE PyStr(text.chars)
    ELSE text.json_text_of

\* try_parse, lines 124-130: None for no text, "" and a text json.loads
\* rejects.
try_parse(text) ==
    IF "py" \in DOMAIN text THEN PyNone
    ELSE IF "chars" \in DOMAIN text
    THEN IF text.chars = <<>> THEN PyNone
         ELSE IF json_loads(text.chars).ok THEN json_loads(text.chars).val
         ELSE PyNone
    ELSE text.json_text_of

\* line 122
raw_text(r) == IF r.has_text THEN r.output_text ELSE PyNone

\* getattr(piece, "text", "")
PieceText(piece) == IF "text" \in DOMAIN piece THEN piece.text ELSE CharText(<<>>)

\* lines 137-141: the pieces of one message, until one parses
RECURSIVE ScanPieces(_)
ScanPieces(content) ==
    IF content = <<>> THEN PyNone
    ELSE LET parsed == IF TypeOf(Head(content)) = "output_text"
                       THEN try_parse(PieceText(Head(content)))
                       ELSE PyNone
         IN IF parsed # PyNone THEN parsed ELSE ScanPieces(Tail(content))

\* getattr(item, "content", []) or []
ItemContent(item) == IF "content" \in DOMAIN item THEN item.content ELSE <<>>

\* lines 134-143: the output items, until a piece of a message parses
RECURSIVE ScanItems(_)
ScanItems(output) ==
    IF output = <<>> THEN PyNone
    ELSE LET parsed == IF TypeOf(Head(output)) = "message"
                       THEN ScanPieces(ItemContent(Head(output)))
                       ELSE PyNone
         IN IF parsed # PyNone THEN parsed ELSE ScanItems(Tail(output))

\* lines 132-143
ParsedReply(r) ==
    IF try_parse(raw_text(r)) # PyNone THEN try_parse(raw_text(r))
    ELSE ScanItems(IF r.has_output THEN r.output ELSE <<>>)

\* line 145: data = parsed or {}
ReplyData(r) ==
    IF PyTruthy(ParsedReply(r)) THEN ParsedReply(r) ELSE PyDict(EmptyDict)

\* lines 148-150 on a dict d
WithDefaults(d, names) ==
    [k \in DOMAIN d \cup Range(names) |->
        IF k \notin DOMAIN d THEN PyStr(<<>>)
        ELSE IF d[k] = PyNone THEN PyStr(<<>>) ELSE d[k]]

\* str(data.get("title") or "")
TitleText(d) ==
    IF "title" \in DOMAIN d
    THEN IF PyTruthy(d["title"]) THEN py_str(d["title"]) ELSE <<>>
    ELSE <<>>

\* line 153
NeedsBackfill(d, hint) ==
    Strip(TitleText(d)) = <<>> /\ PyTruthy(hint)

\* lines 153-154
Backfilled(d, hint) ==
    IF NeedsBackfill(d, hint)
    THEN [k \in DOMAIN d \cup {"title"} |->
            IF k = "title" THEN PyStr(TitleFromFilename(hint.val))
            ELSE d[k]]
    ELSE d

\* lines 119-157 after the generative call returned r: what leaves the
\* function.  data is the value of line 145; a data that is no dict makes
\* line 149 or 150 raise TypeError.
ExtractionResult(r, c, hint) ==
    LET d == ReplyData(r)
    IN IF d.py # "dict"
       THEN [raised |-> "TypeError", data |-> d, value |-> EmptyDict]
       ELSE LET v == model_validate(
                        Backfilled(WithDefaults(d.val, c.attributes),
                                   hint),
                        c.attributes)
            IN [raised |-> v.raised, data |-> d, value |-> v.value]

\* ----------------------------------------------------------------- actions

\* generate_report, lines 177-183: the store id and the seed messages.
\* OPENAI_API_KEY is set, so load_settings does not raise.
GenerateReport(i) ==
    /\ pc[i] = "ready"
    /\ \E period \in Periods :
         LET store == ensure_vector_store(envStoreId, stateFile)
         IN /\ vsid' = [vsid EXCEPT ![i] = store.id]
            /\ stateFile' = store.file
            /\ storesCreated' = storesCreated + store.created
            /\ input_messages' =
                 [input_messages EXCEPT ![i] = SeedMessages(period, store.id)]
    /\ pc' = [pc EXCEPT ![i] = "loop"]
    /\ UNCHANGED <<extractVars, batchVars>>
    /\ UNCHANGED <<envStoreId, input_accum, resp, pending, sent, inFlight,
                   responses, handled, ret, data>>

\* _tool_loop, lines 123-139: the first generative call is issued.
FirstCall(i) ==
    /\ pc[i] = "loop"
    /\ sent' = [sent EXCEPT ![i] = Append(@, input_messages[i])]
    /\ inFlight' = [inFlight EXCEPT ![i] = @ + 1]
    /\ pc' = [pc EXCEPT ![i] = "awaiting"]
    /\ UNCHANGED <<extractVars, batchVars>>
    /\ UNCHANGED <<storeVars, vsid, input_messages, input_accum, resp, pending,
                   responses, handled, ret, data>>

\* The transcript after response r, the n-th received: line 141 or line 174.
Accumulate(n, messages, accum, r) ==
    IF n = 1 THEN AccumFirst(messages, r) ELSE AccumNext(accum, r)

\* Mutant of CallerMessages: input_accum is the caller's list itself.
CallerMessagesAliased(messages, accum) == accum

\* The caller's list once input_accum has grown to accum: line 141 builds
\* input_accum from a copy, list(input_messages), and lines 160 and 174
\* extend that copy, so the list of the caller keeps its entries.
CallerMessages(messages, accum) == messages

\* client.responses.create returns r (lines 133-141, 166-174).
Receive(i, r) ==
    /\ resp' = [resp EXCEPT ![i] = r]
    /\ responses' = [responses EXCEPT ![i] = Append(@, r)]
    /\ input_accum' =
         [input_accum EXCEPT
            ![i] = Accumulate(Len(sent[i]), input_messages[i], @, r)]
    /\ input_messages' =
         [input_messages EXCEPT
            ![i] = CallerMessages(@, Accumulate(Len(sent[i]), @,
                                                input_accum[i], r))]
    /\ inFlight' = [inFlight EXCEPT ![i] = @ - 1]
    /\ pc' = [pc EXCEPT ![i] = "check"]
    /\ UNCHANGED <<extractVars, batchVars>>
    /\ UNCHANGED <<storeVars, vsid, pending, sent, handled, ret, data>>

CallReturns(i) ==
    /\ pc[i] = "awaiting"
    /\ \E r \in EndpointResponses(i, Len(sent[i]),
                                  MaxOutputItems - ItemCount(responses[i]),
                                  LoopTexts) :
         Receive(i, r)

\* client.responses.create raises: the exception leaves _tool_loop and
\* generate_report.
CallFails(i) ==
    /\ pc[i] = "awaiting"
    /\ inFlight' = [inFlight EXCEPT ![i] = @ - 1]
    /\ pc' = [pc EXCEPT ![i] = "failed"]
    /\ UNCHANGED <<extractVars, batchVars>>
    /\ UNCHANGED <<storeVars, vsid, input_messages, input_accum, resp, pending,
                   sent, responses, handled, ret, data>>

\* lines 144-146: no tool calls, _tool_loop returns the final text.
ReturnFinal(i) ==
    /\ pc[i] = "check"
    /\ NoToolCalls(resp[i])
    /\ ret' = [ret EXCEPT ![i] = OutputText(resp[i])]
    /\ pc' = [pc EXCEPT ![i] = "returned"]
    /\ UNCHANGED <<extractVars, batchVars>>
    /\ UNCHANGED <<storeVars, vsid, input_messages, input_accum, resp, pending,
                   sent, inFlight, responses, handled, data>>

\* lines 144-148: there are tool calls, the for loop starts.
BeginDispatch(i) ==
    /\ pc[i] = "check"
    /\ ~NoToolCalls(resp[i])
    /\ pending' = [pending EXCEPT ![i] = ToolCalls(resp[i])]
    /\ pc' = [pc EXCEPT ![i] = "dispatch"]
    /\ UNCHANGED <<extractVars, batchVars>>
    /\ UNCHANGED <<storeVars, vsid, input_messages, input_accum, resp, sent,
                   inFlight, responses, handled, ret, data>>

\* lines 148-164: one pass of the for loop.
DispatchCall(i) ==
    /\ pc[i] = "dispatch"
    /\ pending[i] # <<>>
    /\ LET call == Head(pending[i])
       IN /\ handled' = [handled EXCEPT ![i] = @ \o HandlerCalls(call, vsid[i])]
          /\ input_accum' =
               [input_accum EXCEPT
                  ![i] = Append(@, ResultEntry(call,
                             ToolOutput(call, vsid[i], envStoreId, stateFile)))]
    /\ pending' = [pending EXCEPT ![i] = Tail(@)]
    /\ UNCHANGED <<extractVars, batchVars>>
    /\ UNCHANGED <<storeVars, pc, vsid, input_messages, resp, sent, inFlight,
                   responses, ret, data>>

\* lines 166-173: the for loop is over, the next generative call is issued.
NextCall(i) ==
    /\ pc[i] = "dispatch"
    /\ pending[i] = <<>>
    /\ sent' = [sent EXCEPT ![i] = Append(@, input_accum[i])]
    /\ inFlight' = [inFlight EXCEPT ![i] = @ + 1]
    /\ pc' = [pc EXCEPT ![i] = "awaiting"]
    /\ UNCHANGED <<extractVars, batchVars>>
    /\ UNCHANGED <<storeVars, vsid, input_messages, input_accum, resp, pending,
                   responses, handled, ret, data>>

\* generate_report, lines 184-189: strip, parse or degrade, return.
FinishReport(i) ==
    /\ pc[i] = "returned"
    /\ data' = [data EXCEPT ![i] = ReportData(ret[i])]
    /\ pc' = [pc EXCEPT ![i] = "done"]
    /\ UNCHANGED <<extractVars, batchVars>>
    /\ UNCHANGED <<storeVars, vsid, input_messages, input_accum, resp, pending,
                   sent, inFlight, responses, handled, ret>>

\* The endpoint answers with a response that requests no tool, its final
\* text any text of up to MaxTextLen characters.
FinalAnswer(i) ==
    /\ pc[i] = "awaiting"
    /\ \E r \in {q \in EndpointResponses(i, Len(sent[i]), 1, Texts) :
                    NoToolCalls(q)} :
         Receive(i, r)

\* ------------------------------------------------- the extraction endpoint

\* The values the model may give an attribute: null, "", " ", "A", 0, 2024,
\* [], ["a", 3] and {"en": "A"}.
ReplyValues ==
    {PyNone, PyStr(<<>>), PyStr(<<" ">>), PyStr(<<"A">>), PyInt(0),
     PyInt(2024), PyList(<<>>), PyList(<<PyStr(<<"a">>), PyInt(3)>>),
     PyDict([en |-> PyStr(<<"A">>)])}

\* The keys of a reply: two that may be declared and one that never is.
ReplyKeys == {"title", "year", "notes"}

ReplyObjects ==
    {PyDict(d) : d \in UNION {[K -> ReplyValues] : K \in SUBSET ReplyKeys}}

\* Texts that are JSON but no object with keys: 1, [1], [] and {}.
PlainJsonTexts == {<<"1">>, <<"[", "1", "]">>, <<"[", "]">>, <<"{", "}">>}

\* Final texts after which the output items are scanned: no output_text
\* attribute, "" and a text that is not JSON.
UnparsedTexts == {PyNone, CharText(<<>>), CharText(<<"x">>)}

\* Texts of the content pieces of the output items.
PieceTexts ==
    {CharText(<<"x">>), json_dumps(PyDict([year |-> PyInt(2024)])),
     json_dumps(PyDict([title |-> PyStr(<<"B">>)]))}

Pieces ==
    {[type |-> "refusal"]} \cup {[type |-> "output_text", text |-> t] :
                                    t \in PieceTexts}

ReplyItems ==
    {[type |-> "reasoning"]}
    \cup {[type |-> "message", content |-> c] : c \in SeqsUpTo(Pieces, 2)}

Reply(hasText, text, hasOutput, items) ==
    [has_text |-> hasText, output_text |-> text, has_output |-> hasOutput,
     output |-> items]

\* The responses of the generative call of line 113 with up to n output
\* items.  The items are read only after an unparsed final text.
ExtractionResponses(n) ==
    {Reply(TRUE, json_dumps(o), TRUE, <<>>) : o \in ReplyObjects}
    \cup {Reply(TRUE, CharText(t), TRUE, <<>>) : t \in PlainJsonTexts}
    \cup {Reply(t # PyNone, t, TRUE, items) :
            t \in UnparsedTexts, items \in SeqsUpTo(ReplyItems, n)}
    \cup {Reply(t # PyNone, t, FALSE, <<>>) : t \in UnparsedTexts}

NoSchema == [name |-> NoneVal]

NoReply == Reply(FALSE, PyNone, FALSE, <<>>)

NotExtracted == [raised |-> NoneVal, data |-> PyNone, value |-> EmptyDict]

\* ------------------------------------------ actions of the attribute extractor

\* extract_attributes_from_file, lines 84-117: the schema is built and the
\* generative call is issued.
ExtractStart ==
    /\ xpc = "ready"
    /\ schema_wrapper' = _build_json_schema(cfg)
    /\ generative_calls' = generative_calls + 1
    /\ xpc' = "awaiting"
    /\ UNCHANGED <<storeVars, loopVars, batchVars>>
    /\ UNCHANGED <<cfg, filename_hint, response, extracted>>

\* Mutant of ExtractCallFails: the failed call is issued again.
ExtractCallRetried ==
    /\ xpc = "awaiting"
    /\ xpc' = "ready"
    /\ UNCHANGED <<storeVars, loopVars, batchVars>>
    /\ UNCHANGED <<cfg, filename_hint, generative_calls, schema_wrapper,
                   response, extracted>>

\* client.responses.create raises: the exception leaves
\* extract_attributes_from_file.
ExtractCallFails ==
    /\ xpc = "awaiting"
    /\ xpc' = "failed"
    /\ UNCHANGED <<storeVars, loopVars, batchVars>>
    /\ UNCHANGED <<cfg, filename_hint, generative_calls, schema_wrapper,
                   response, extracted>>

\* lines 117-157 once the call has returned r
ExtractFinish(r) ==
    /\ response' = r
    /\ extracted' = ExtractionResult(r, cfg, filename_hint)
    /\ xpc' = IF extracted'.raised = NoneVal THEN "returned" ELSE "raised"
    /\ UNCHANGED <<storeVars, loopVars, batchVars>>
    /\ UNCHANGED <<cfg, filename_hint, generative_calls, schema_wrapper>>

ExtractCallReturns ==
    /\ xpc = "awaiting"
    /\ \E r \in ExtractionResponses(MaxReplyItems) : ExtractFinish(r)

ExtractFresh ==
    /\ generative_calls = 0
    /\ schema_wrapper = NoSchema
    /\ response = NoReply
    /\ extracted = NotExtracted

ExtractIdle ==
    /\ cfg = FullConfig
    /\ filename_hint = PyNone
    /\ xpc = "idle"
    /\ ExtractFresh

BatchFresh ==
    /\ pdfs = <<>>
    /\ position = 0
    /\ file_id = <<>>
    /\ attrs = PyNone
    /\ events = <<>>
    /\ index = EmptyDict
    /\ ensured = <<>>

BatchIdle == ipc = "idle" /\ BatchFresh

\* ------------------------------------------------------------ specifications

LoopIdle ==
    /\ storesCreated = 0
    /\ vsid = [i \in Invocations |-> NoneVal]
    /\ input_messages = [i \in Invocations |-> <<>>]
    /\ input_accum = [i \in Invocations |-> <<>>]
    /\ resp = [i \in Invocations |-> NoResponse]
    /\ pending = [i \in Invocations |-> <<>>]
    /\ sent = [i \in Invocations |-> <<>>]
    /\ inFlight = [i \in Invocations |-> 0]
    /\ responses = [i \in Invocations |-> <<>>]
    /\ handled = [i \in Invocations |-> <<>>]
    /\ ret = [i \in Invocations |-> <<>>]
    /\ data = [i \in Invocations |-> NoData]

Idle == LoopIdle /\ ExtractIdle /\ BatchIdle

\* One report is generated, with any configuration of the store id.
Init ==
    /\ envStoreId \in {NoneVal, EnvStore}
    /\ stateFile \in {NoneVal, SavedStore}
    /\ pc = [i \in Invocations |-> IF i = 1 THEN "ready" ELSE "idle"]
    /\ Idle

Next ==
    \E i \in Invocations :
        \/ GenerateReport(i)
        \/ FirstCall(i)
        \/ CallReturns(i)
        \/ CallFails(i)
        \/ ReturnFinal(i)
        \/ BeginDispatch(i)
        \/ DispatchCall(i)
        \/ NextCall(i)
        \/ FinishReport(i)

Spec == Init /\ [][Next]_vars

\* The steps of invocation i that are the program's own: Python runs them
\* one after the other without waiting for anything.
ProgramStep(i) ==
    \/ GenerateReport(i)
    \/ FirstCall(i)
    \/ ReturnFinal(i)
    \/ BeginDispatch(i)
    \/ DispatchCall(i)
    \/ NextCall(i)
    \/ FinishReport(i)

\* The store id is the configured one: whether the loop goes on does not
\* depend on where the id came from.
InitConfigured ==
    /\ envStoreId = EnvStore
    /\ stateFile = NoneVal
    /\ pc = [i \in Invocations |-> IF i = 1 THEN "ready" ELSE "idle"]
    /\ Idle

FairSpec ==
    /\ InitConfigured
    /\ [][Next]_vars
    /\ \A i \in Invocations : WF_vars(ProgramStep(i))

\* generate_report against an endpoint that answers the first call with a
\* final answer: every text of up to MaxTextLen characters is parsed.
NextReport ==
    \E i \in Invocations :
        \/ GenerateReport(i)
        \/ FirstCall(i)
        \/ FinalAnswer(i)
        \/ ReturnFinal(i)
        \/ FinishReport(i)

SpecReport == Init /\ [][NextReport]_vars

\* extract_attributes_from_file for one document: any configuration, any
\* filename hint, any response.
InitExtract ==
    /\ envStoreId = NoneVal
    /\ stateFile = NoneVal
    /\ pc = [i \in Invocations |-> "idle"]
    /\ LoopIdle
    /\ BatchIdle
    /\ cfg \in AttributeConfigs
    /\ filename_hint \in FilenameHints
    /\ xpc = "ready"
    /\ ExtractFresh

NextExtract ==
    \/ ExtractStart
    \/ ExtractCallFails
    \/ ExtractCallReturns

SpecExtract == InitExtract /\ [][NextExtract]_vars

\* The responses of the specification of failing calls: an object and a
\* text that is not JSON.
PlainResponses ==
    {Reply(TRUE, json_dumps(PyDict([title |-> PyStr(<<"A">>)])), TRUE, <<>>),
     Reply(TRUE, CharText(<<"x">>), FALSE, <<>>)}

ExtractPlainReturn ==
    /\ xpc = "awaiting"
    /\ \E r \in PlainResponses : ExtractFinish(r)

\* One report generation and one extraction, each generative call of which
\* may fail.
InitCalls ==
    /\ envStoreId = EnvStore
    /\ stateFile = NoneVal
    /\ pc = [i \in Invocations |-> IF i = 1 THEN "ready" ELSE "idle"]
    /\ LoopIdle
    /\ BatchIdle
    /\ cfg = FullConfig
    /\ filename_hint = PyNone
    /\ xpc = "ready"
    /\ ExtractFresh

NextCalls ==
    \/ Next
    \/ ExtractStart
    \/ ExtractCallFails
    \/ ExtractPlainReturn

SpecCalls == InitCalls /\ [][NextCalls]_vars

\* The responses of the specification of two report generations: a final
\* message, or one call of file_list, while there is room for an item.
BriefResponses(i, k, n) ==
    {Response(i, k, TRUE, shapes, TRUE, <<"{", "}", " ">>) :
        shapes \in {q \in SeqsUpTo({[type |-> "message"]}, n) : Len(q) <= 1}}
    \cup {Response(i, k, TRUE, <<shape>>, TRUE, <<>>) :
            shape \in {q \in ItemShapes :
                          /\ n > 0
                          /\ q.type = "function_call"
                          /\ q.name = KnownTool
                          /\ q.arguments.kind = "none"}}

BriefReturn(i) ==
    /\ pc[i] = "awaiting"
    /\ \E r \in BriefResponses(i, Len(sent[i]),
                                MaxOutputItems - ItemCount(responses[i])) :
         Receive(i, r)

\* Two report generations and one extraction, their steps interleaved in
\* any order.
InitConcurrent ==
    /\ envStoreId = EnvStore
    /\ stateFile = NoneVal
    /\ pc = [i \in Invocations |-> "ready"]
    /\ LoopIdle
    /\ BatchIdle
    /\ cfg \in AttributeConfigs
    /\ filename_hint = PyNone
    /\ xpc = "ready"
    /\ ExtractFresh

NextConcurrent ==
    \/ \E i \in Invocations :
          \/ GenerateReport(i)
          \/ FirstCall(i)
          \/ BriefReturn(i)
          \/ CallFails(i)
          \/ ReturnFinal(i)
          \/ BeginDispatch(i)
          \/ DispatchCall(i)
          \/ NextCall(i)
          \/ FinishReport(i)
    \/ ExtractStart
    \/ ExtractCallFails
    \/ ExtractPlainReturn

SpecConcurrent == InitConcurrent /\ [][NextConcurrent]_vars

\* ------------------------------------------- bulk_ingest.py, vector_upload.py

\* The PDF files that may lie under the folder, each named by the rank of
\* its path in the order of paths.
PdfPaths == 1..MaxPdfs

\* sorted(S)
RECURSIVE sorted(_)
sorted(S) ==
    IF S = {} THEN <<>>
    ELSE LET least == CHOOSE x \in S : \A y \in S : x <= y
         IN <<least>> \o sorted(S \ {least})

\* find_pdfs(folder), lines 19-21, when the files under the folder are found
find_pdfs(found) == sorted(found)

\* The id the Files API gives the upload of path.
UploadedId(path) == <<"file", path>>

\* What extract_attributes_from_file returns to ingest_folder: the record
\* of a reply without attributes and one with a title.
ExtractedRecords ==
    {model_validate(WithDefaults(d, FullConfig.attributes),
                    FullConfig.attributes).value :
        d \in {EmptyDict, [title |-> PyStr(<<"A">>)]}}

\* line 61: attrs.model_dump() if attrs else {}
attr_dict(a) == IF a # PyNone THEN a.val ELSE EmptyDict

\* res.status of create_and_poll
AttachStatuses == {"completed", "failed"}

\* A stage ingest_folder attempted for path, and how it ended.
Event(path, stage, ok, a) ==
    [path |-> path, stage |-> stage, ok |-> ok, attrs |-> a]

\* lines 20-28 of vector_upload.py: the record of the file in the index
FileRecord(vs, f, a, path, status) ==
    [vector_store_id |-> vs, file_id |-> f, attributes |-> a,
     source_path |-> path, status |-> status]

\* idx["files"][file_id] = file_record
WithFile(idx, f, rec) ==
    [k \in DOMAIN idx \cup {f} |-> IF k = f THEN rec ELSE idx[k]]

\* ingest_folder, lines 24-27 and 42: the PDFs are found and sorted; without
\* any the function returns.
FindPdfs ==
    /\ ipc = "ready"
    /\ \E found \in SUBSET PdfPaths :
         /\ pdfs' = find_pdfs(found)
         /\ ipc' = IF found = {} THEN "done" ELSE "upload"
    /\ position' = 1
    /\ UNCHANGED <<storeVars, loopVars, extractVars>>
    /\ UNCHANGED <<file_id, attrs, events, index, ensured>>

\* The for loop of line 42 goes on to the next path, or is over.
NextPath ==
    /\ position' = position + 1
    /\ ipc' = IF position < Len(pdfs) THEN "upload" ELSE "done"

\* lines 44-46: upload_file returns the id of the file
UploadFile ==
    /\ ipc = "upload"
    /\ file_id' = UploadedId(pdfs[position])
    /\ events' = Append(events, Event(pdfs[position], "upload", TRUE, EmptyDict))
    /\ ipc' = "extract"
    /\ UNCHANGED <<storeVars, loopVars, extractVars>>
    /\ UNCHANGED <<pdfs, position, attrs, index, ensured>>

\* lines 47-49: upload_file raises, the loop continues with the next path
UploadFails ==
    /\ ipc = "upload"
    /\ events' = Append(events, Event(pdfs[position], "upload", FALSE, EmptyDict))
    /\ NextPath
    /\ UNCHANGED <<storeVars, loopVars, extractVars>>
    /\ UNCHANGED <<pdfs, file_id, attrs, index, ensured>>

\* lines 52-54: extract_attributes_from_file returns a record
ExtractAttributes ==
    /\ ipc = "extract"
    /\ \E record \in ExtractedRecords : attrs' = PyDict(record)
    /\ events' = Append(events, Event(pdfs[position], "extract", TRUE, EmptyDict))
    /\ ipc' = "attach"
    /\ UNCHANGED <<storeVars, loopVars, extractVars>>
    /\ UNCHANGED <<pdfs, position, file_id, index, ensured>>

\* Mutant of ExtractFails: the file of a failed extraction is skipped.
ExtractFailsSkips ==
    /\ ipc = "extract"
    /\ attrs' = PyNone
    /\ events' = Append(events, Event(pdfs[position], "extract", FALSE, EmptyDict))
    /\ NextPath
    /\ UNCHANGED <<storeVars, loopVars, extractVars>>
    /\ UNCHANGED <<pdfs, file_id, index, ensured>>

\* lines 55-57: extract_attributes_from_file raises, attrs is None
ExtractFails ==
    /\ ipc = "extract"
    /\ attrs' = PyNone
    /\ events' = Append(events, Event(pdfs[position], "extract", FALSE, EmptyDict))
    /\ ipc' = "attach"
    /\ UNCHANGED <<storeVars, loopVars, extractVars>>
    /\ UNCHANGED <<pdfs, position, file_id, index, ensured>>

\* The call of ensure_vector_store by attach_file_to_vector_store, line 12
EnsuredStore ==
    ensure_vector_store_given(envStoreId, stateFile,
                              CreatedStores[storesCreated + 1])

\* ensure_vector_store has returned: the store it may have created and
\* persisted, and the id it gave.
StoreEnsured ==
    /\ stateFile' = EnsuredStore.file
    /\ storesCreated' = storesCreated + EnsuredStore.created
    /\ ensured' = Append(ensured, EnsuredStore.id)
    /\ UNCHANGED envStoreId

\* lines 60-64 with attach_file_to_vector_store, lines 11-38: the file is
\* attached with some status and its record is saved in the index.
AttachFile ==
    /\ ipc = "attach"
    /\ StoreEnsured
    /\ \E status \in AttachStatuses :
         index' = WithFile(index, file_id,
                           FileRecord(EnsuredStore.id, file_id, attr_dict(attrs),
                                      pdfs[position], status))
    /\ events' = Append(events, Event(pdfs[position], "attach", TRUE,
                                      attr_dict(attrs)))
    /\ NextPath
    /\ UNCHANGED <<loopVars, extractVars>>
    /\ UNCHANGED <<pdfs, file_id, attrs>>

\* lines 65-67: attach_file_to_vector_store raises, either as
\* client.vector_stores.create fails within ensure_vector_store or as
\* create_and_poll fails.
AttachFails ==
    /\ ipc = "attach"
    /\ \/ /\ EnsuredStore.created = 1
          /\ UNCHANGED <<storeVars, ensured>>
       \/ StoreEnsured
    /\ events' = Append(events, Event(pdfs[position], "attach", FALSE,
                                      attr_dict(attrs)))
    /\ NextPath
    /\ UNCHANGED <<loopVars, extractVars>>
    /\ UNCHANGED <<pdfs, file_id, attrs, index>>

\* ingest_folder on a folder with any of the PDFs, under any configuration
\* of the store id.
InitIngest ==
    /\ envStoreId \in {NoneVal, "", EnvStore}
    /\ stateFile \in {NoneVal, "", SavedStore}
    /\ pc = [i \in Invocations |-> "idle"]
    /\ LoopIdle
    /\ ExtractIdle
    /\ ipc = "ready"
    /\ BatchFresh

NextIngest ==
    \/ FindPdfs
    \/ UploadFile
    \/ UploadFails
    \/ ExtractAttributes
    \/ ExtractFails
    \/ AttachFile
    \/ AttachFails

SpecIngest == InitIngest /\ [][NextIngest]_vars

\* -------------------------------------------------- vocabulary of the claims

\* The output items a response came with.
ReturnedItems(r) == IF r.has_output THEN r.output ELSE <<>>

\* The function_call items of the responses rs.
CallItems(rs) ==
    {o \in UNION {{ReturnedItems(rs[k])[j] : j \in DOMAIN ReturnedItems(rs[k])} :
                    k \in DOMAIN rs} :
        o.type = "function_call"}

HasCalls(r) ==
    \E j \in DOMAIN ReturnedItems(r) : ReturnedItems(r)[j].type = "function_call"

IsResult(e) == "type" \in DOMAIN e /\ e.type = "function_call_output"

IsItem(e) == "id" \in DOMAIN e

\* The positions of transcript t that hold a result for call id c.
ResultsFor(t, c) == {p \in DOMAIN t : IsResult(t[p]) /\ t[p].call_id = c}

Finished(i) == pc[i] \in {"returned", "done"}

\* The transcript of invocation i: the seed until the first response.
Transcript(i) == IF responses[i] = <<>> THEN input_messages[i] ELSE input_accum[i]

IsPrefix(a, b) == Len(a) <= Len(b) /\ SubSeq(b, 1, Len(a)) = a

\* ------------------------------------------------------------------ claims

\* C1: the transcript passed to every generative call after the first holds
\* exactly one function_call_output per function_call item of every earlier
\* response, matched by call_id, and no function_call_output for anything
\* else (file_search calls and messages are never answered).
C1_EveryCallAnsweredOnce ==
    \A i \in Invocations :
        \A k \in 2..Len(sent[i]) :
            LET t == sent[i][k]
                earlier == SubSeq(responses[i], 1, k - 1)
            IN /\ \A o \in CallItems(earlier) :
                     Cardinality(ResultsFor(t, o.call_id)) = 1
               /\ \A p \in DOMAIN t :
                     IsResult(t[p]) =>
                        \E o \in CallItems(earlier) : o.call_id = t[p].call_id

\* C1 witness: a second call was issued after a response that held a
\* function call and a managed file_search call.
C1_Witness ==
    \E i \in Invocations :
        /\ Len(sent[i]) >= 2
        /\ Cardinality(CallItems(<<responses[i][1]>>)) = 1
        /\ \E j \in DOMAIN responses[i][1].output :
              responses[i][1].output[j].type = "file_search_call"

\* C2: at most one generative call is in flight, no call is issued while
\* tool calls of the round are pending, and in the transcript every tool
\* result of round k lies after every output item of responses 1..k and
\* before every output item of later responses.
C2_RoundsDoNotInterleave ==
    \A i \in Invocations :
        /\ inFlight[i] <= 1
        /\ inFlight[i] = 1 => pc[i] = "awaiting" /\ pending[i] = <<>>
        /\ \A p, q \in DOMAIN Transcript(i) :
              LET t == Transcript(i)
              IN IsResult(t[p]) /\ IsItem(t[q]) =>
                    IF t[q].id[2] <= t[p].call_id[2] THEN q < p ELSE p < q

\* C2 witness: the result of a round is followed in the transcript by an
\* output item of the next response.
C2_Witness ==
    \E i \in Invocations :
        /\ Len(responses[i]) >= 2
        /\ ReturnedItems(responses[i][2]) # <<>>
        /\ \E p \in DOMAIN input_accum[i] :
              /\ p < Len(input_accum[i])
              /\ IsResult(input_accum[i][p])
              /\ IsItem(input_accum[i][p + 1])

\* C3: _tool_loop returns only at a response without function_call items,
\* the first such response, and returns that response's output_text; at a
\* response with a function_call item it goes on to dispatch the tools and
\* from there to the next generative call, never to its return.
C3_ReturnedAtFirstFinal ==
    \A i \in Invocations :
        Finished(i) =>
            LET n == Len(responses[i])
                last == responses[i][n]
            IN /\ n >= 1
               /\ ~HasCalls(last)
               /\ \A k \in 1..(n - 1) : HasCalls(responses[i][k])
               /\ ret[i] = IF last.has_text THEN last.output_text ELSE <<>>

C3_StepsAfterResponse ==
    \A i \in Invocations :
        /\ pc[i] = "check" /\ HasCalls(resp[i]) =>
              pc'[i] \in {"check", "dispatch"}
        /\ pc[i] = "check" /\ ~HasCalls(resp[i]) =>
              pc'[i] \in {"check", "returned"}
        /\ pc[i] = "dispatch" =>
              \/ pc'[i] = "dispatch" /\ sent'[i] = sent[i]
              \/ pc'[i] = "awaiting" /\ Len(sent'[i]) = Len(sent[i]) + 1

C4_OnlyIfFinalResponse ==
    \A i \in Invocations :
        /\ Finished(i) =>
              /\ \E k \in DOMAIN responses[i] : ~HasCalls(responses[i][k])
              /\ Len(sent[i]) = Len(responses[i])
        /\ pc[i] = "dispatch" /\ pending[i] = <<>> => ENABLED NextCall(i)
        /\ pc[i] = "failed" => Len(sent[i]) = Len(responses[i]) + 1

C4_TerminatesIffFinalResponse ==
    /\ [](C4_OnlyIfFinalResponse)
    /\ \A i \in Invocations :
          (\E k \in DOMAIN responses[i] : ~HasCalls(responses[i][k]))
              ~> (pc[i] = "done")

\* C4 witness: the loop returned at its third response, after two rounds of
\* tool calls.
C4_Witness ==
    \E i \in Invocations :
        /\ pc[i] = "done"
        /\ Len(responses[i]) = 3
        /\ HasCalls(responses[i][1])
        /\ HasCalls(responses[i][2])

\* Vocabulary of C5 and C6: the entries of the transcript that answer the
\* call o, and the handler calls made for it.
AnswersTo(i, o) ==
    {input_accum[i][p] : p \in ResultsFor(input_accum[i], o.call_id)}

HandledFor(i, o) ==
    {p \in DOMAIN handled[i] : handled[i][p].call_id = o.call_id}

RoundOf(o) == o.call_id[2]

\* C5: a function call whose name is not file_list is answered with an
\* error object that names the tool, the file-inventory handler is not
\* called for it, and the loop does not fail on it: the dispatch goes on and
\* the next generative call is issued.
C5_UnknownToolAnswered ==
    \A i \in Invocations :
        \A o \in CallItems(responses[i]) :
            o.name # "file_list" =>
                /\ \A e \in AnswersTo(i, o) :
                      /\ DOMAIN e.output.json_text_of = {"error"}
                      /\ e.output.json_text_of.error = <<"Unknown tool ", o.name>>
                /\ HandledFor(i, o) = {}
                /\ AnswersTo(i, o) # {} =>
                      \/ pc[i] = "dispatch" /\ RoundOf(o) = Len(sent[i])
                      \/ Len(sent[i]) > RoundOf(o)

C5_DispatchNeverFails ==
    \A i \in Invocations :
        pc[i] = "dispatch" => pc'[i] \in {"dispatch", "awaiting"}

RequestedStore(a, bound) ==
    IF /\ a.kind = "object"
       /\ "vector_store_id" \in DOMAIN a.obj
       /\ a.obj["vector_store_id"] \notin {"", NoneVal}
    THEN a.obj["vector_store_id"]
    ELSE bound

RECURSIVE SumItems(_)
SumItems(rs) ==
    IF rs = <<>> THEN 0 ELSE Len(ReturnedItems(Head(rs))) + SumItems(Tail(rs))

AllResults(t) == {p \in DOMAIN t : IsResult(t[p])}

\* The run C7 scripts: two responses, the first with exactly one function
\* call, of file_list, the second with none.
ScriptedRun(i) ==
    /\ Len(responses[i]) = 2
    /\ Cardinality(CallItems(<<responses[i][1]>>)) = 1
    /\ \A o \in CallItems(<<responses[i][1]>>) : o.name = "file_list"
    /\ ~HasCalls(responses[i][2])

\* C7: when the loop has returned, its transcript is as long as the seed
\* plus every output item of every response plus one entry per function
\* call; in the scripted run one handler call was made, one result with the
\* call's id appended, two generative calls issued, the transcript holds the
\* seed, the items of round 1, one result and the items of round 2, and a
\* round-2 text "{} " comes back parsed, as the empty object.
C7_RoundTrip ==
    \A i \in Invocations :
        /\ Finished(i) =>
              Len(input_accum[i]) =
                  Len(input_messages[i]) + SumItems(responses[i])
                      + Cardinality(CallItems(responses[i]))
        /\ pc[i] = "done" /\ ScriptedRun(i) =>
              /\ Len(handled[i]) = 1
              /\ Cardinality(AllResults(input_accum[i])) = 1
              /\ \A o \in CallItems(<<responses[i][1]>>) :
                    /\ handled[i][1].call_id = o.call_id
                    /\ Cardinality(ResultsFor(input_accum[i], o.call_id)) = 1
              /\ Len(sent[i]) = 2
              /\ Len(input_accum[i]) =
                    2 + Len(ReturnedItems(responses[i][1])) + 1
                      + Len(ReturnedItems(responses[i][2]))
              /\ responses[i][2].has_text
                   /\ responses[i][2].output_text = <<"{", "}", " ">> =>
                    data[i].py = "dict" /\ DOMAIN data[i].val = {}

\* C7 witness: the scripted run is over, each of its rounds came with one
\* output item and the report is the parsed object.
C7_Witness ==
    \E i \in Invocations :
        /\ pc[i] = "done"
        /\ ScriptedRun(i)
        /\ Len(ReturnedItems(responses[i][1])) = 1
        /\ Len(ReturnedItems(responses[i][2])) = 1
        /\ responses[i][2].output_text = <<"{", "}", " ">>
        /\ data[i].py = "dict"

\* C8: the transcript starts as the system instructions followed by the
\* user request, that seed is the input of the first call, and every step
\* leaves the transcript it found as a prefix of the one it leaves.
C8_SeededTranscript ==
    \A i \in Invocations :
        /\ pc[i] \notin {"idle", "ready"} =>
              /\ Len(Transcript(i)) >= 2
              /\ DOMAIN Transcript(i)[1] = {"role", "content"}
              /\ Transcript(i)[1].role = "system"
              /\ DOMAIN Transcript(i)[2] = {"role", "content"}
              /\ Transcript(i)[2].role = "user"
              /\ Transcript(i)[2].content.vsid = vsid[i]
        /\ sent[i] # <<>> => sent[i][1] = SubSeq(Transcript(i), 1, 2)
        /\ \A k \in 1..(Len(sent[i]) - 1) : IsPrefix(sent[i][k], sent[i][k + 1])

C8_AppendOnly ==
    \A i \in Invocations : IsPrefix(Transcript(i), Transcript(i)')

C8_TranscriptOnlyGrows ==
    [](C8_SeededTranscript) /\ [][C8_AppendOnly]_vars

\* C8 witness: the transcript holds the seed, the items and results of a
\* first round and the items of a second response.
C8_Witness ==
    \E i \in Invocations :
        /\ Len(responses[i]) = 2
        /\ Len(input_accum[i]) >= 5
        /\ Len(sent[i]) = 2
        /\ Len(sent[i][2]) > Len(sent[i][1])

\* Vocabulary of C9 and C10.  s is t without its leading and trailing blanks.
IsStripped(s, t) ==
    \E a, b \in 0..Len(t) :
        /\ a + b <= Len(t)
        /\ s = SubSeq(t, a + 1, Len(t) - b)
        /\ \A p \in 1..a : t[p] = " "
        /\ \A p \in (Len(t) - b + 1)..Len(t) : t[p] = " "
        /\ s # <<>> => s[1] # " " /\ s[Len(s)] # " "

\* Every field of the report d but the summary is null or empty.
OnlySummary(d) ==
    /\ DOMAIN d = {"summary", "demand_trends", "economic_and_industry_metrics",
                   "sentiment_analysis", "regional_segmentation",
                   "emerging_trends", "historical_comparison", "conclusions"}
    /\ \A k \in {"leisure", "group", "business", "convention"} :
          d.demand_trends[k] = NoneVal
    /\ \A k \in {"luxury", "premium", "economy"} :
          d.demand_trends.by_price_scale[k] = NoneVal
    /\ d.economic_and_industry_metrics = <<>>
    /\ d.sentiment_analysis = <<>>
    /\ d.regional_segmentation = <<>>
    /\ d.emerging_trends = <<>>
    /\ d.historical_comparison.period_compared = NoneVal
    /\ d.historical_comparison.key_differences = <<>>
    /\ d.conclusions = NoneVal

\* generate_report returned for a final text that is no JSON.
ReturnedForInvalidText(i) == pc[i] = "done" /\ ~json_loads(ret[i]).ok

\* C9 as stated: the summary of the degraded report is the raw final text.
C9_SummaryIsRawText ==
    \A i \in Invocations :
        ReturnedForInvalidText(i) =>
            /\ data[i].py = "dict"
            /\ OnlySummary(data[i].val)
            /\ data[i].val.summary = ret[i]

\* C9, amended: for a final text that is no JSON, generate_report returns a
\* degraded report whose summary is the final text without its leading and
\* trailing whitespace and whose other fields are null or empty, and the
\* step from the loop's return to that report cannot fail.
C9_DegradedReport ==
    \A i \in Invocations :
        ReturnedForInvalidText(i) =>
            /\ data[i].py = "dict"
            /\ OnlySummary(data[i].val)
            /\ IsStripped(data[i].val.summary, ret[i])

C9_ParseNeverRaises ==
    \A i \in Invocations : pc[i] = "returned" => pc'[i] \in {"returned", "done"}

C9_DegradedReportStripped ==
    [](C9_DegradedReport) /\ [][C9_ParseNeverRaises]_vars

\* C9 witness: a report was returned for the text "x " (no JSON, a blank at
\* its end).
C9_Witness ==
    \E i \in Invocations :
        /\ ReturnedForInvalidText(i)
        /\ ret[i] = <<"x", " ">>
        /\ data[i].val.summary = <<"x">>

\* C10: whatever the final text, the value generate_report returns is a
\* report object (a dict).
C10_AlwaysReportObject ==
    \A i \in Invocations : pc[i] = "done" => data[i].py = "dict"

\* ------------------------------------------------- the attribute extractor

\* The record extract_attributes_from_file returned.
ReturnedRecord == extracted.value

Declared == Range(cfg.attributes)

\* The reply the record was made from is a JSON object.
ReplyIsObject == xpc = "returned" /\ ParsedReply(response).py = "dict"

\* The title of the record comes from the filename hint.
TitleFromHint(d) ==
    NeedsBackfill(WithDefaults(d, cfg.attributes), filename_hint)

ObjectReplyReceived ==
    xpc \in {"returned", "raised"} /\ ParsedReply(response).py = "dict"

\* The coercion the attribute record calls for: the string form of a
\* number, the string forms of the elements of a sequence, "" for null, a
\* string unchanged.
CoercedAs(v, n) ==
    /\ IsAttributeValue(n)
    /\ v.py = "none" => n = PyStr(<<>>)
    /\ v.py = "int" => n = PyStr(str_int(v.val))
    /\ v.py = "str" => n = v
    /\ v.py = "list" =>
         /\ n.py = "list"
         /\ Len(n.val) = Len(v.val)
         /\ \A p \in DOMAIN v.val : n.val[p] = PyStr(py_str(v.val[p]))

\* C12: normalization coerces every value the model returns for a declared
\* attribute into the empty string, a single string or a sequence of
\* strings (number and elements to their string form, null to "", a string
\* unchanged).
C12_EveryValueCoerced ==
    ObjectReplyReceived =>
        LET reply == ParsedReply(response).val
        IN \A k \in Declared \cap DOMAIN reply :
              CoercedAs(reply[k], _normalize(reply[k]))

\* The texts of response r that extract_attributes_from_file may parse: the
\* final text and the text of every output_text piece of a message.
MessageItems(r) ==
    IF r.has_output
    THEN {p \in DOMAIN r.output : TypeOf(r.output[p]) = "message"}
    ELSE {}

OutputTextPieces(item) ==
    {q \in DOMAIN ItemContent(item) :
        TypeOf(ItemContent(item)[q]) = "output_text"}

\* text is not valid JSON: it is missing, or json.loads rejects it.
NotJson(text) ==
    \/ "py" \in DOMAIN text
    \/ "chars" \in DOMAIN text /\ ~json_loads(text.chars).ok

NoValidJson(r) ==
    /\ NotJson(raw_text(r))
    /\ \A p \in MessageItems(r) : \A q \in OutputTextPieces(r.output[p]) :
          NotJson(PieceText(r.output[p].content[q]))

\* The record of a reply without any attribute.
DefaultRecord ==
    [k \in Declared |->
        IF k = "title" /\ PyTruthy(filename_hint)
        THEN PyStr(TitleFromFilename(filename_hint.val))
        ELSE PyStr(<<>>)]

\* C13: when neither the final text nor any fallback piece is valid JSON,
\* extract_attributes_from_file raises nothing and returns the record in
\* which every declared key holds "", the title backfilled from the
\* filename hint excepted.
C13_InvalidJsonGivesDefaults ==
    xpc \in {"returned", "raised"} /\ NoValidJson(response) =>
        xpc = "returned" /\ ReturnedRecord = DefaultRecord

\* Invalid JSON as final text and in both pieces of a message: the record
\* holds the defaults and the title of the hint.
C13_Witness ==
    /\ xpc = "returned"
    /\ NoValidJson(response)
    /\ raw_text(response) = CharText(<<"x">>)
    /\ \E p \in MessageItems(response) :
          Cardinality(OutputTextPieces(response.output[p])) = 2
    /\ cfg = FullConfig
    /\ filename_hint = PyStr(Q2Report)
    /\ ReturnedRecord["title"] # PyStr(<<>>)

\* "Q2 2025 Report"
Q2ReportTitle ==
    <<"Q", "2", " ", "2", "0", "2", "5", " ", "R", "e", "p", "o", "r", "t">>

\* A title that says nothing: "", only blanks, or no element.
IsBlankTitle(v) ==
    \/ v.py = "str" /\ Strip(v.val) = <<>>
    \/ v.py = "list" /\ v.val = <<>>

\* The title of the reply after the defaults of lines 148-150.
DefaultedTitle == WithDefaults(ParsedReply(response).val, cfg.attributes)["title"]

HintSupplied == PyTruthy(filename_hint)

\* C14: the title is backfilled exactly when it is blank after defaulting
\* and a filename hint was supplied, and then it is the stem of the filename
\* with underscores replaced by spaces, trimmed ("Q2_2025_Report.pdf" gives
\* "Q2 2025 Report"); a non-blank title of the model is never overwritten,
\* and without a hint a blank title stays blank.
C14_BackfillExactlyWhenBlank ==
    ReplyIsObject /\ "title" \in Declared =>
        /\ IsBlankTitle(DefaultedTitle) /\ HintSupplied =>
              /\ ReturnedRecord["title"] =
                    PyStr(TitleFromFilename(filename_hint.val))
              /\ filename_hint = PyStr(Q2Report) =>
                    ReturnedRecord["title"] = PyStr(Q2ReportTitle)
        /\ ~IsBlankTitle(DefaultedTitle) =>
              ReturnedRecord["title"] = _normalize(DefaultedTitle)
        /\ IsBlankTitle(DefaultedTitle) /\ ~HintSupplied =>
              IsBlankTitle(ReturnedRecord["title"])

\* The properties of the loose schema that was built.
SchemaBuilt == schema_wrapper # NoSchema

Properties == schema_wrapper.schema.properties

\* string | number | array of string
IsGenericUnion(prop) ==
    /\ Len(prop.anyOf) = 3
    /\ prop.anyOf[1] = [type |-> "string"]
    /\ prop.anyOf[2] = [type |-> "number"]
    /\ prop.anyOf[3] = [type |-> "array", items |-> [type |-> "string"]]

\* string of the allowed set or "" | array of allowed values
IsEnumShape(prop, allowed) ==
    /\ Len(prop.anyOf) = 2
    /\ prop.anyOf[1].type = "string"
    /\ Range(prop.anyOf[1].enum) = Range(allowed) \cup {""}
    /\ prop.anyOf[2].type = "array"
    /\ prop.anyOf[2].items.type = "string"
    /\ Range(prop.anyOf[2].items.enum) = Range(allowed)

\* C15: the loose schema has exactly one property per declared attribute
\* name and none for another name; the property of a declared name with an
\* enum is the two-way enum shape and not the generic union, that of every
\* other declared name is the generic union; an enum for an undeclared name
\* adds no property.
C15_SchemaProperties ==
    SchemaBuilt =>
        /\ DOMAIN Properties = Declared
        /\ \A k \in Declared :
              IF k \in DOMAIN cfg.enums
              THEN /\ IsEnumShape(Properties[k], cfg.enums[k])
                   /\ ~IsGenericUnion(Properties[k])
              ELSE IsGenericUnion(Properties[k])
        /\ \A k \in DOMAIN cfg.enums \ Declared : k \notin DOMAIN Properties

\* The schema of a configuration with an enum for a declared name and an
\* enum for an undeclared one.
C15_Witness ==
    /\ SchemaBuilt
    /\ "travel_types" \in Declared \cap DOMAIN cfg.enums
    /\ "region" \in DOMAIN cfg.enums \ Declared
    /\ "year" \in Declared \ DOMAIN cfg.enums

\* ------------------------------------------------- failing generative calls

\* extract_attributes_from_file has issued its generative call.
ExtractionCalled == xpc \in {"awaiting", "failed", "returned", "raised"}

\* Invocation i stays as the failure of its call left it.
StaysFailed(i) ==
    pc[i] = "failed" =>
        /\ pc'[i] = "failed"
        /\ sent'[i] = sent[i]
        /\ inFlight'[i] = inFlight[i]
        /\ data'[i] = data[i]

\* C16, states: extract_attributes_from_file issues exactly one generative
\* call; a failure of it leaves no record behind; a failed _tool_loop has
\* received a response to every call but its last and returned nothing.
C16_OneCallNoRecovery ==
    /\ generative_calls = IF ExtractionCalled THEN 1 ELSE 0
    /\ xpc = "failed" => extracted = NotExtracted
    /\ \A i \in Invocations :
          pc[i] = "failed" =>
              /\ Len(sent[i]) = Len(responses[i]) + 1
              /\ inFlight[i] = 0
              /\ data[i] = NoData

\* C16, steps: after a failure neither function issues a further call.
C16_NoCallAfterFailure ==
    /\ xpc = "failed" =>
          xpc' = "failed" /\ generative_calls' = generative_calls
    /\ \A i \in Invocations : StaysFailed(i)

\* C16: a failure of the generative call propagates and is not recovered:
\* extract_attributes_from_file issues exactly one call and never retries
\* it, and _tool_loop aborts at the round in which the call fails and issues
\* no further call.
C16_FailurePropagates ==
    []C16_OneCallNoRecovery /\ [][C16_NoCallAfterFailure]_vars

\* The extraction has failed, and the report generation has failed at its
\* second round.
C16_Witness ==
    /\ xpc = "failed"
    /\ generative_calls = 1
    /\ pc[1] = "failed"
    /\ Len(sent[1]) = 2

\* ------------------------------------------------- concurrent invocations

\* The invocation an entry of a transcript belongs to: the output items and
\* the tool results carry it in their id; the seed messages carry none.
OwnerOf(e) ==
    IF IsResult(e) THEN e.call_id[1] ELSE IF IsItem(e) THEN e.id[1] ELSE 0

\* generate_report has handed its messages to _tool_loop.
InLoop(i) == pc[i] \notin {"idle", "ready"}

\* C17, states: every entry appended to the transcript of an invocation is
\* of that invocation, and the list of its caller holds the seed alone.
C17_OwnEntriesOnly ==
    \A i \in Invocations :
        /\ \A p \in DOMAIN input_accum[i] :
              OwnerOf(input_accum[i][p]) \in {0, i}
        /\ \A p \in DOMAIN input_messages[i] :
              OwnerOf(input_messages[i][p]) = 0

\* C17, steps: _tool_loop leaves the list of its caller as it is, a step of
\* one invocation leaves the transcript of the other as it is, and no step
\* changes the attribute configuration.
C17_NothingSharedChanges ==
    /\ \A i \in Invocations :
          /\ InLoop(i) => input_messages'[i] = input_messages[i]
          /\ \A j \in Invocations \ {i} :
                input_accum'[i] # input_accum[i] =>
                    input_accum'[j] = input_accum[j]
    /\ cfg' = cfg

\* C17: invocations do not interfere: _tool_loop works on its own copy of
\* the transcript and never changes the caller's input_messages, no entry
\* appended by one of two interleaved invocations appears in the transcript
\* of the other, and building the loose schema changes no configuration
\* shared between calls.
C17_NonInterference ==
    []C17_OwnEntriesOnly /\ [][C17_NothingSharedChanges]_vars

\* Both report generations are in their second round, each with a tool
\* result in its transcript, while the extraction waits for its call.
C17_Witness ==
    /\ \A i \in Invocations :
          /\ pc[i] = "awaiting"
          /\ Len(sent[i]) = 2
          /\ \E p \in DOMAIN input_accum[i] : IsResult(input_accum[i][p])
    /\ xpc = "awaiting"
    /\ SchemaBuilt

\* ------------------------------------------------------ the vector store id

\* A call of ensure_vector_store returns in this step.
EnsureReturns == ensured' # ensured

\* C18, steps: a call returns the id of the environment if one is set,
\* otherwise the persisted id if there is one, and only otherwise creates a
\* store, persists its id and returns it; no store is created otherwise.
C18_Precedence ==
    /\ EnsureReturns =>
          LET returned == ensured'[Len(ensured')]
          IN IF Truthy(envStoreId)
             THEN /\ returned = envStoreId
                  /\ UNCHANGED <<stateFile, storesCreated>>
             ELSE IF Truthy(stateFile)
             THEN /\ returned = stateFile
                  /\ UNCHANGED <<stateFile, storesCreated>>
             ELSE /\ storesCreated' = storesCreated + 1
                  /\ stateFile' = returned
    /\ ~EnsureReturns => UNCHANGED <<stateFile, storesCreated>>
    /\ envStoreId' = envStoreId

\* C18, states: at most one store has been created and every call has
\* returned the same id.
C18_OneStoreOneId ==
    /\ storesCreated <= 1
    /\ \A p, q \in DOMAIN ensured : ensured[p] = ensured[q]

\* C18: ensure_vector_store returns the configured id, else the persisted
\* id, else creates a store and persists its id; over any sequence of calls
\* with the same environment and a state file that persists, at most one
\* store is created and every call returns the same id.
C18_StoreIdIsStable ==
    []C18_OneStoreOneId /\ [][C18_Precedence]_vars

\* Two calls without a configured or persisted id: the first created the
\* store, the second returned its id.
C18_Witness ==
    /\ ~Truthy(envStoreId)
    /\ Len(ensured) = 2
    /\ storesCreated = 1
    /\ ensured = <<NewStore, NewStore>>
    /\ stateFile = NewStore

\* ------------------------------------------------- the raw text selection

\* The final text of r is present: the attribute exists and holds a text.
FinalTextPresent(r) == r.has_text /\ r.output_text # CharText(<<>>)

\* The object that text is the JSON of, the empty object if it is none.
ObjectOf(text) ==
    IF "json_text_of" \in DOMAIN text THEN text.json_text_of
    ELSE IF "chars" \in DOMAIN text
    THEN IF json_loads(text.chars).ok /\ json_loads(text.chars).val.py = "dict"
         THEN json_loads(text.chars).val
         ELSE PyDict(EmptyDict)
    ELSE PyDict(EmptyDict)

\* The message items of r that hold an output_text piece.
MessagesWithText(r) ==
    {p \in MessageItems(r) : OutputTextPieces(r.output[p]) # {}}

Least(S) == CHOOSE x \in S : \A y \in S : x <= y

\* The text the ordered fallback selects: the final text when present,
\* else the first output_text piece of the first message that has one.
SelectedData(r) ==
    IF FinalTextPresent(r) THEN ObjectOf(r.output_text)
    ELSE IF MessagesWithText(r) = {} THEN PyDict(EmptyDict)
    ELSE LET item == r.output[Least(MessagesWithText(r))]
         IN ObjectOf(PieceText(item.content[Least(OutputTextPieces(item))]))

\* C19: the data of extract_attributes_from_file is parsed from the final
\* text when that is present; only when it is absent from the first
\* output_text piece of the first message item that has one; and it is the
\* empty object when neither yields an object.
C19_OrderedFallback ==
    xpc \in {"returned", "raised"} => extracted.data = SelectedData(response)

\* ------------------------------------------------------------- the batch

\* The events of a stage for path, by their place in events.
StageEvents(path, stage) ==
    {p \in DOMAIN events : events[p].path = path /\ events[p].stage = stage}

Uploads == {p \in DOMAIN events : events[p].stage = "upload"}

\* The one event of a stage for path, when there is exactly one.
StageEvent(path, stage) == events[Least(StageEvents(path, stage))]

Succeeded(path, stage) ==
    \E p \in StageEvents(path, stage) : events[p].ok

\* ingest_folder is through with the path at place q of pdfs.
PathFinished(q) == q < position

\* What C20 says of a path the batch is through with.
HandledAsClaimed(path) ==
    /\ Cardinality(StageEvents(path, "upload")) = 1
    /\ IF Succeeded(path, "upload")
       THEN /\ Cardinality(StageEvents(path, "extract")) = 1
            /\ Cardinality(StageEvents(path, "attach")) = 1
       ELSE /\ StageEvents(path, "extract") = {}
            /\ StageEvents(path, "attach") = {}
    /\ UploadedId(path) \in DOMAIN index <=> Succeeded(path, "attach")
    /\ /\ Succeeded(path, "upload")
       /\ ~Succeeded(path, "extract")
       => /\ StageEvent(path, "attach").attrs = EmptyDict
          /\ Succeeded(path, "attach") =>
                index[UploadedId(path)].attributes = EmptyDict

\* C20: ingest_folder attempts every PDF found exactly once, in sorted
\* order, and no failure aborts the batch; the attachment of a file (and so
\* its entry in the index) is attempted if and only if its upload
\* succeeded: a failed upload skips extraction and attachment, a failed
\* extraction still attaches the file, with an empty attribute record.
C20_EveryPdfHandled ==
    /\ \A a, b \in DOMAIN pdfs : a < b => pdfs[a] < pdfs[b]
    /\ \A p \in Uploads :
          /\ Cardinality({q \in Uploads : q <= p}) \in DOMAIN pdfs
          /\ events[p].path = pdfs[Cardinality({q \in Uploads : q <= p})]
    /\ ipc = "done" => Cardinality(Uploads) = Len(pdfs)
    /\ \A q \in DOMAIN pdfs : PathFinished(q) => HandledAsClaimed(pdfs[q])

\* A batch of two files is over: the upload of the first failed, the
\* extraction of the second failed and it was attached without attributes.
C20_Witness ==
    /\ ipc = "done"
    /\ Len(pdfs) = 2
    /\ ~Succeeded(pdfs[1], "upload")
    /\ Succeeded(pdfs[2], "upload")
    /\ ~Succeeded(pdfs[2], "extract")
    /\ Succeeded(pdfs[2], "attach")
    /\ index[UploadedId(pdfs[2])].attributes = EmptyDict

====
